---- MODULE Spec2Model ----
(***************************************************************************)
(* Model of the signalstack worker (src/index.js): one fetch handler that  *)
(* routes a request to the health check, POST /feedback, GET /stats,       *)
(* GET /clusters, GET /seed or a 404, over the D1 table feedback and the   *)
(* Workers AI binding.                                                     *)
(*                                                                         *)
(* Values.  JavaScript undefined and JavaScript null / SQL NULL are        *)
(* the strings Undefined and Null; every other string is itself.  Numbers  *)
(* with decimals are rationals [num, den]; a number that went through      *)
(* toFixed(2) is an integer count of hundredths.                           *)
(***************************************************************************)
EXTENDS Integers, Sequences, FiniteSets, TLC

VARIABLES
    store,      \* the rows of table feedback, in insertion (id) order
    fb,         \* the POST /feedback request in flight, if any
    seed,       \* the GET /seed request
    resp,       \* the response the last step returned, if it returned one
    envAI,      \* the env.AI binding
    postsLeft   \* POST /feedback requests the behaviour may still receive

vars == <<store, fb, seed, resp, envAI, postsLeft>>

-----------------------------------------------------------------------------
(* Bounds of the model                                                      *)

\* POST /feedback requests accepted in one behaviour of Spec.
MaxPosts == 3

-----------------------------------------------------------------------------
(* JavaScript / SQL values                                                  *)

Undefined == "<undefined>"
Null == "<null>"

\* JavaScript truthiness of a string-or-missing value, as !x reads it.
Falsy(v) == v \in {Undefined, Null, ""}

\* new Date().toISOString(): a non-empty ISO-8601 string.
Now == "2026-01-01T00:00:00.000Z"

-----------------------------------------------------------------------------
(* tagWithAI                                                                *)

fallback ==
    [kind |-> "object", theme |-> "Other", urgency |-> "Medium",
     severity |-> "Moderate", sentiment |-> "Neutral"]

\* The value JSON.parse yields for the text null.
NullTags ==
    [kind |-> "null", theme |-> Undefined, urgency |-> Undefined,
     severity |-> Undefined, sentiment |-> Undefined]

\* Pieces a model response is made of.  Fence is the three-backquote code
\* fence; JSON texts are written without their double quotes.
Fence == "[fence]"
JsonWord == "json"
Newline == "\n"

JsonA == "{theme: Bug, urgency: High, severity: Critical, sentiment: Negative}"
JsonP == "{theme: Performance, urgency: Medium, severity: Minor, sentiment: Positive}"
JsonN == "{theme: Bug, urgency: null, severity: Moderate, sentiment: Angry}"
JsonM == "{theme: Bug}"
JsonNull == "null"
Prose == "Sure! Here is the classification:"

\* JSON.parse on one piece of text: [ok, value]; ok = FALSE is a SyntaxError.
JsonParse(s) ==
    CASE s = JsonA ->
           [ok |-> TRUE,
            value |-> [kind |-> "object", theme |-> "Bug", urgency |-> "High",
                       severity |-> "Critical", sentiment |-> "Negative"]]
      [] s = JsonP ->
           [ok |-> TRUE,
            value |-> [kind |-> "object", theme |-> "Performance",
                       urgency |-> "Medium", severity |-> "Minor",
                       sentiment |-> "Positive"]]
      [] s = JsonN ->
           [ok |-> TRUE,
            value |-> [kind |-> "object", theme |-> "Bug", urgency |-> Null,
                       severity |-> "Moderate", sentiment |-> "Angry"]]
      [] s = JsonM ->
           [ok |-> TRUE,
            value |-> [kind |-> "object", theme |-> "Bug",
                       urgency |-> Undefined, severity |-> Undefined,
                       sentiment |-> Undefined]]
      [] s = JsonNull -> [ok |-> TRUE, value |-> NullTags]
      [] OTHER -> [ok |-> FALSE, value |-> NullTags]

\* .replace(/[fence]json/g, ""): drop every code fence immediately followed
\* by the word json.
RECURSIVE StripJsonFence(_)
StripJsonFence(s) ==
    IF Len(s) = 0 THEN <<>>
    ELSE IF Len(s) >= 2 /\ s[1] = Fence /\ s[2] = JsonWord
         THEN StripJsonFence(SubSeq(s, 3, Len(s)))
         ELSE <<s[1]>> \o StripJsonFence(Tail(s))

\* .replace(/[fence]/g, ""): drop every remaining code fence.
StripFence(s) == SelectSeq(s, LAMBDA t : t # Fence)

\* .trim(): drop leading and trailing whitespace.
RECURSIVE TrimLeft(_)
TrimLeft(s) ==
    IF Len(s) > 0 /\ s[1] = Newline THEN TrimLeft(Tail(s)) ELSE s

RECURSIVE TrimRight(_)
TrimRight(s) ==
    IF Len(s) > 0 /\ s[Len(s)] = Newline
    THEN TrimRight(SubSeq(s, 1, Len(s) - 1))
    ELSE s

Trim(s) == TrimRight(TrimLeft(s))

\* String(ai.response || "") with the fences removed and trimmed.  A text is
\* the sequence of its pieces; a missing response reads as the empty text.
Cleaned(response) == Trim(StripFence(StripJsonFence(response)))

\* What the try block of tagWithAI returns for one outcome of env.AI.run:
\* the parsed value, or the fallback when the call or the parse throws.
ParseOrFallback(outcome) ==
    IF outcome.throws THEN fallback
    ELSE LET c == Cleaned(outcome.response)
         IN  IF Len(c) = 1 /\ JsonParse(c[1]).ok
             THEN JsonParse(c[1]).value
             ELSE fallback

\* Outcomes of env.AI.run the model draws from: the call rejects, or it
\* resolves to an object whose response is the given text (the empty text
\* also stands for a result without a response).
AIOutcome(throws, response) == [throws |-> throws, response |-> response]

AIOutcomes ==
    { AIOutcome(TRUE, <<>>),
      AIOutcome(FALSE, <<>>),
      AIOutcome(FALSE, <<Prose, Newline, JsonA>>),
      AIOutcome(FALSE, <<Fence, JsonWord, Newline, JsonA, Newline, Fence>>),
      AIOutcome(FALSE, <<Fence, Newline, JsonP, Newline, Fence, Newline>>),
      AIOutcome(FALSE, <<JsonN>>),
      AIOutcome(FALSE, <<JsonM>>),
      AIOutcome(FALSE, <<JsonNull>>) }

-----------------------------------------------------------------------------
(* The env.AI binding                                                       *)

\* env.AI is either not bound, or bound to a model whose run can end in any
\* of the given outcomes.
Unbound == [bound |-> FALSE, outcomes |-> {}]
Bound(outcomes) == [bound |-> TRUE, outcomes |-> outcomes]

\* The start of tagWithAI: the fallback at once when env.AI is not bound,
\* otherwise one env.AI.run call is awaited.
CallsAI == envAI.bound

-----------------------------------------------------------------------------
(* Table feedback                                                           *)

\* The row INSERT INTO feedback ... VALUES (?, ?, ?, ?, ?, ?, ?, ?, 0) adds.
Row(text, source, timestamp, created_at, tags) ==
    [text |-> text, source |-> source, timestamp |-> timestamp,
     created_at |-> created_at, theme |-> tags.theme,
     urgency |-> tags.urgency, severity |-> tags.severity,
     sentiment |-> tags.sentiment, escalated |-> 0]

\* .bind(..., tags.theme, tags.urgency, tags.severity, tags.sentiment) throws
\* when tags is null (a property read of null) and when a bound value is
\* undefined, which D1 rejects; JavaScript null is bound as SQL NULL.
BindThrows(tags) ==
    \/ tags.kind = "null"
    \/ Undefined \in {tags.theme, tags.urgency, tags.severity, tags.sentiment}

\* A nullable SQL integer.
SqlInt(n) == [isNull |-> FALSE, n |-> n]
SqlNull == [isNull |-> TRUE, n |-> 0]

\* The number a JavaScript comparison reads in it: null is 0.
ToNumber(v) == IF v.isNull THEN 0 ELSE v.n

RECURSIVE SeqSum(_)
SeqSum(s) == IF Len(s) = 0 THEN 0 ELSE s[1] + SeqSum(Tail(s))

\* SUM(expr) over the rows: NULL when there is no row.
SqlSum(values) ==
    IF Len(values) = 0 THEN SqlNull ELSE SqlInt(SeqSum(values))

\* CASE WHEN column = value THEN 1 ELSE 0 END, row by row.
Flags(rows, column, value) ==
    [i \in 1..Len(rows) |-> IF rows[i][column] = value THEN 1 ELSE 0]

\* The single row of SELECT COUNT(*), SUM(...), SUM(...), SUM(...) FROM feedback.
StatsRow(rows) ==
    [total |-> Len(rows),
     high_urgency |-> SqlSum(Flags(rows, "urgency", "High")),
     critical |-> SqlSum(Flags(rows, "severity", "Critical")),
     negative |-> SqlSum(Flags(rows, "sentiment", "Negative"))]

-----------------------------------------------------------------------------
(* Rationals, for AVG(...) and the priority                                 *)

Rat(num, den) == [num |-> num, den |-> den]
RatMul(a, b) == Rat(a.num * b.num, a.den * b.den)
RatGt(a, b) == a.num * b.den > b.num * a.den

\* Number(x.toFixed(2)) of a non-negative x, in hundredths.
ToFixed2(x) == (200 * x.num + x.den) \div (2 * x.den)

-----------------------------------------------------------------------------
(* GET /stats                                                               *)

LowRisk == "Feedback volume is low risk."
TrendingNegative == "User sentiment is trending negative."
UrgentIssues == "Urgent issues detected that may require prioritization."

Summary(stats) ==
    IF RatGt(Rat(ToNumber(stats.negative), 1), Rat(stats.total, 2))
    THEN TrendingNegative
    ELSE IF ToNumber(stats.high_urgency) > 0 \/ ToNumber(stats.critical) > 0
         THEN UrgentIssues
         ELSE LowRisk

\* json({...stats, summary})
StatsPayload(rows) ==
    LET stats == StatsRow(rows)
    IN  [kind |-> "stats", total |-> stats.total,
         high_urgency |-> stats.high_urgency, critical |-> stats.critical,
         negative |-> stats.negative, summary |-> Summary(stats)]

-----------------------------------------------------------------------------
(* GET /clusters                                                            *)

UrgencyWeight(u) ==
    IF u = "High" THEN 3 ELSE IF u = "Medium" THEN 2 ELSE 1

SeverityWeight(v) ==
    IF v = "Critical" THEN 3 ELSE IF v = "Moderate" THEN 2 ELSE 1

\* The row of the GROUP BY theme query for one theme present in the table.
GroupRow(rows, theme) ==
    LET members == SelectSeq(rows, LAMBDA r : r.theme = theme)
        n == Len(members)
    IN  [theme |-> theme,
         coverage |-> n,
         avg_urgency |->
             Rat(SeqSum([i \in 1..n |-> UrgencyWeight(members[i].urgency)]), n),
         avg_severity |->
             Rat(SeqSum([i \in 1..n |-> SeverityWeight(members[i].severity)]), n)]

Themes(rows) == {rows[i].theme : i \in 1..Len(rows)}

\* The orders in which the query may list the groups.
GroupOrders(rows) ==
    LET T == Themes(rows)
        n == Cardinality(T)
    IN  {o \in [1..n -> T] : \A i, j \in 1..n : i # j => o[i] # o[j]}

RecurringInsight == "Recurring user feedback detected."
RecurringRecommendation == "Monitor and review in upcoming sprint."
TaxonomyInsight == "Large volume of uncategorized feedback suggests taxonomy gaps."
TaxonomyRecommendation == "Refine AI classification prompts or expand feedback categories."
HighImpactInsight == "High-impact issue affecting multiple users."
HighImpactRecommendation == "Prioritize investigation and remediation."

PriorityThreshold == 20

\* Mutant of Priority: the coverage factor is left out.
PriorityOfAverages(r) == RatMul(r.avg_urgency, r.avg_severity)

\* r.coverage * r.avg_urgency * r.avg_severity
Priority(r) == RatMul(RatMul(Rat(r.coverage, 1), r.avg_urgency), r.avg_severity)

\* The body of results.map(...).
Cluster(r) ==
    LET priority == Priority(r)
        other == r.theme = "Other"
        high == ~other /\ RatGt(priority, Rat(PriorityThreshold, 1))
    IN  [theme |-> r.theme,
         coverage |-> r.coverage,
         avg_urgency |-> ToFixed2(r.avg_urgency),
         avg_severity |-> ToFixed2(r.avg_severity),
         priority |-> ToFixed2(priority),
         insight |->
             IF other THEN TaxonomyInsight
             ELSE IF high THEN HighImpactInsight ELSE RecurringInsight,
         recommendation |->
             IF other THEN TaxonomyRecommendation
             ELSE IF high THEN HighImpactRecommendation
                  ELSE RecurringRecommendation]

\* Where a stable sort by (a, b) => b.priority - a.priority puts c in a
\* sorted list: after every element whose priority is not smaller.
RECURSIVE InsertByPriority(_, _)
InsertByPriority(sorted, c) ==
    IF Len(sorted) = 0 THEN <<c>>
    ELSE IF sorted[1].priority >= c.priority
         THEN <<sorted[1]>> \o InsertByPriority(Tail(sorted), c)
         ELSE <<c>> \o sorted

\* Mutant of SortByPriority: the comparator is a.priority - b.priority.
RECURSIVE InsertAscending(_, _)
InsertAscending(sorted, c) ==
    IF Len(sorted) = 0 THEN <<c>>
    ELSE IF sorted[1].priority <= c.priority
         THEN <<sorted[1]>> \o InsertAscending(Tail(sorted), c)
         ELSE <<c>> \o sorted

RECURSIVE SortAscending(_)
SortAscending(cs) ==
    IF Len(cs) = 0 THEN <<>>
    ELSE InsertAscending(SortAscending(SubSeq(cs, 1, Len(cs) - 1)), cs[Len(cs)])

RECURSIVE SortByPriority(_)
SortByPriority(cs) ==
    IF Len(cs) = 0 THEN <<>>
    ELSE InsertByPriority(SortByPriority(SubSeq(cs, 1, Len(cs) - 1)), cs[Len(cs)])

\* json({top_problem: clusters[0] || null, clusters}); top_problem is the
\* empty sequence for null and the one-element sequence of the cluster
\* otherwise.
ClustersPayload(rows, order) ==
    LET results == [i \in 1..Len(order) |-> GroupRow(rows, order[i])]
        clusters == SortByPriority([i \in 1..Len(results) |-> Cluster(results[i])])
    IN  [kind |-> "clusters",
         top_problem |-> IF Len(clusters) = 0 THEN <<>> ELSE <<clusters[1]>>,
         clusters |-> clusters]

-----------------------------------------------------------------------------
(* Requests and responses                                                   *)

Methods == {"GET", "POST", "OPTIONS"}
Paths == {"/", "/feedback", "/stats", "/clusters", "/seed", "/unknown"}

\* The handler the chain of if statements of fetch selects.
Route(method, path) ==
    IF method = "OPTIONS" THEN "options"
    ELSE IF path = "/" /\ method = "GET" THEN "health"
    ELSE IF path = "/feedback" /\ method = "POST" THEN "feedback"
    ELSE IF path = "/stats" /\ method = "GET" THEN "stats"
    ELSE IF path = "/clusters" /\ method = "GET" THEN "clusters"
    ELSE IF path = "/seed" /\ method = "GET" THEN "seed"
    ELSE "notfound"

\* What request.json() yields: a rejection for a body that is not JSON, the
\* JSON null, or an object whose text, source and timestamp are each
\* missing, null, empty or a non-empty string.
Body(kind, text, source, timestamp) ==
    [kind |-> kind, text |-> text, source |-> source, timestamp |-> timestamp]

NoBody == Body("none", Undefined, Undefined, Undefined)

TextValues == {Undefined, Null, "", "Checkout button does nothing"}
SourceValues == {Undefined, "", "Email"}
TimestampValues == {Undefined, "", "2025-12-31T23:59:59Z"}

Bodies ==
    {Body("unparsable", Undefined, Undefined, Undefined),
     Body("null", Undefined, Undefined, Undefined)}
    \cup {Body("object", t, s, ts) :
            t \in TextValues, s \in SourceValues, ts \in TimestampValues}

\* Mutant of Rejected: the presence check reads text alone.
RejectedTextOnly(body) == Falsy(body.text)

\* if (!text || !source || !timestamp), after const {...} = body || {}
Rejected(body) ==
    Falsy(body.text) \/ Falsy(body.source) \/ Falsy(body.timestamp)

\* A response, with the handler that returned it, the body of the request
\* it answers and what that request did: env.AI.run calls made and rows
\* inserted.
Response(handler, body, status, payload, aiCalls, inserts) ==
    [handler |-> handler, body |-> body, status |-> status,
     payload |-> payload, aiCalls |-> aiCalls, inserts |-> inserts]

NoResponse == Response("none", NoBody, 0, [kind |-> "none"], 0, 0)

\* An exception that leaves fetch: the runtime answers for the worker.
Unhandled(handler, body, aiCalls, inserts) ==
    Response(handler, body, 500, [kind |-> "exception"], aiCalls, inserts)

HealthText == "Product Signal Engine running"
NotFoundText == "Not found"
RequiredError == "text, source, timestamp required"

samples ==
    << [text |-> "Login fails for enterprise users", source |-> "GitHub"],
       [text |-> "SSO integration breaks randomly", source |-> "Support"],
       [text |-> "Dashboard takes more than 10 seconds to load", source |-> "Discord"],
       [text |-> "API latency is very high during peak hours", source |-> "GitHub"],
       [text |-> "Documentation is outdated for v2 APIs", source |-> "Email"],
       [text |-> "Navigation is confusing in settings screen", source |-> "Twitter"],
       [text |-> "Need export to CSV feature", source |-> "Support"],
       [text |-> "Bug in report generation", source |-> "Support"] >>

-----------------------------------------------------------------------------
(* State                                                                    *)

IdleFb == [pc |-> "idle", body |-> NoBody, tags |-> fallback, aiCalls |-> 0]
IdleSeed == [pc |-> "idle", k |-> 1, tags |-> fallback]

\* The outcomes of the model bound as env.AI in the behaviours of SpecSeed.
SeedAIOutcomes ==
    { AIOutcome(TRUE, <<>>),
      AIOutcome(FALSE, <<Fence, JsonWord, Newline, JsonA, Newline, Fence>>),
      AIOutcome(FALSE, <<JsonNull>>) }

Init ==
    /\ store = <<>>
    /\ fb = IdleFb
    /\ seed = IdleSeed
    /\ resp = NoResponse
    /\ envAI \in {Unbound, Bound(AIOutcomes)}
    /\ postsLeft = MaxPosts

InitSeed ==
    /\ store = <<>>
    /\ fb = IdleFb
    /\ seed = IdleSeed
    /\ resp = NoResponse
    /\ envAI \in {Unbound, Bound(SeedAIOutcomes)}
    /\ postsLeft = 1

-----------------------------------------------------------------------------
(* OPTIONS, GET /, 404                                                      *)

Options ==
    \E path \in Paths :
        /\ Route("OPTIONS", path) = "options"
        /\ resp' = Response("options", NoBody, 200, [kind |-> "empty"], 0, 0)
        /\ UNCHANGED <<store, fb, seed, envAI, postsLeft>>

Health ==
    /\ Route("GET", "/") = "health"
    /\ resp' = Response("health", NoBody, 200,
                        [kind |-> "text", text |-> HealthText], 0, 0)
    /\ UNCHANGED <<store, fb, seed, envAI, postsLeft>>

NotFound ==
    \E method \in Methods, path \in Paths :
        /\ Route(method, path) = "notfound"
        /\ resp' = Response("notfound", NoBody, 404,
                            [kind |-> "text", text |-> NotFoundText], 0, 0)
        /\ UNCHANGED <<store, fb, seed, envAI, postsLeft>>

-----------------------------------------------------------------------------
(* POST /feedback                                                           *)

\* await request.json(), the presence check, and tagWithAI up to its await.
FbReceive ==
    /\ fb.pc = "idle"
    /\ postsLeft > 0
    /\ Route("POST", "/feedback") = "feedback"
    /\ postsLeft' = postsLeft - 1
    /\ \E body \in Bodies :
        IF body.kind = "unparsable"
        THEN /\ resp' = Unhandled("feedback", body, 0, 0)
             /\ fb' = IdleFb
        ELSE IF Rejected(body)
        THEN /\ resp' = Response("feedback", body, 400,
                                 [kind |-> "error", error |-> RequiredError], 0, 0)
             /\ fb' = IdleFb
        ELSE /\ resp' = NoResponse
             /\ fb' = IF CallsAI
                      THEN [pc |-> "classify", body |-> body,
                            tags |-> fallback, aiCalls |-> 1]
                      ELSE [pc |-> "insert", body |-> body,
                            tags |-> fallback, aiCalls |-> 0]
    /\ UNCHANGED <<store, seed, envAI>>

\* env.AI.run settles; tagWithAI returns; the INSERT is prepared and bound.
FbClassify ==
    /\ fb.pc = "classify"
    /\ \E outcome \in envAI.outcomes :
        LET tags == ParseOrFallback(outcome)
        IN  IF BindThrows(tags)
            THEN /\ resp' = Unhandled("feedback", fb.body, fb.aiCalls, 0)
                 /\ fb' = IdleFb
            ELSE /\ resp' = NoResponse
                 /\ fb' = [fb EXCEPT !.pc = "insert", !.tags = tags]
    /\ UNCHANGED <<store, seed, envAI, postsLeft>>

\* Mutant of FbInsert: the statement is bound but never run.
FbInsertWithoutRun ==
    /\ fb.pc = "insert"
    /\ store' = store
    /\ resp' = Response("feedback", fb.body, 200,
                        [kind |-> "stored", status |-> "stored",
                         tags |-> fb.tags], fb.aiCalls, 1)
    /\ fb' = IdleFb
    /\ UNCHANGED <<seed, envAI, postsLeft>>

\* .run() settles: the row is added and the tags are returned, or the store
\* fails and the exception leaves fetch.
FbInsert ==
    /\ fb.pc = "insert"
    /\ \E ok \in BOOLEAN :
        IF ok
        THEN /\ store' = Append(store, Row(fb.body.text, fb.body.source,
                                            fb.body.timestamp, Now, fb.tags))
             /\ resp' = Response("feedback", fb.body, 200,
                                 [kind |-> "stored", status |-> "stored",
                                  tags |-> fb.tags], fb.aiCalls, 1)
        ELSE /\ store' = store
             /\ resp' = Unhandled("feedback", fb.body, fb.aiCalls, 0)
    /\ fb' = IdleFb
    /\ UNCHANGED <<seed, envAI, postsLeft>>

-----------------------------------------------------------------------------
(* GET /stats, GET /clusters                                                *)

GetStats ==
    /\ Route("GET", "/stats") = "stats"
    /\ resp' = Response("stats", NoBody, 200, StatsPayload(store), 0, 0)
    /\ UNCHANGED <<store, fb, seed, envAI, postsLeft>>

GetClusters ==
    /\ Route("GET", "/clusters") = "clusters"
    /\ \E order \in GroupOrders(store) :
        resp' = Response("clusters", NoBody, 200,
                         ClustersPayload(store, order), 0, 0)
    /\ UNCHANGED <<store, fb, seed, envAI, postsLeft>>

-----------------------------------------------------------------------------
(* GET /seed                                                                *)

\* tagWithAI(s.text) up to its await, for item k of samples.
SeedIteration(k) ==
    IF CallsAI
    THEN [pc |-> "classify", k |-> k, tags |-> fallback]
    ELSE [pc |-> "insert", k |-> k, tags |-> fallback]

\* Mutant of SeedStart: the seed handler empties the table before it fills it.
SeedStartTruncates ==
    /\ seed.pc = "idle"
    /\ Route("GET", "/seed") = "seed"
    /\ store' = <<>>
    /\ seed' = SeedIteration(1)
    /\ resp' = NoResponse
    /\ UNCHANGED <<fb, envAI, postsLeft>>

SeedStart ==
    /\ seed.pc = "idle"
    /\ Route("GET", "/seed") = "seed"
    /\ seed' = SeedIteration(1)
    /\ resp' = NoResponse
    /\ UNCHANGED <<store, fb, envAI, postsLeft>>

SeedClassify ==
    /\ seed.pc = "classify"
    /\ \E outcome \in envAI.outcomes :
        LET tags == ParseOrFallback(outcome)
        IN  IF BindThrows(tags)
            THEN /\ resp' = Unhandled("seed", NoBody, 0, 0)
                 /\ seed' = [seed EXCEPT !.pc = "failed"]
            ELSE /\ resp' = NoResponse
                 /\ seed' = [seed EXCEPT !.pc = "insert", !.tags = tags]
    /\ UNCHANGED <<store, fb, envAI, postsLeft>>

\* Mutant of SeedInsert: a failed insert is caught and the loop goes on.
SeedInsertSkipsFailed ==
    /\ seed.pc = "insert"
    /\ \E ok \in BOOLEAN :
        /\ store' = IF ok
                    THEN Append(store, Row(samples[seed.k].text,
                                           samples[seed.k].source,
                                           Now, Now, seed.tags))
                    ELSE store
        /\ IF seed.k = Len(samples)
           THEN /\ seed' = [seed EXCEPT !.pc = "seeded"]
                /\ resp' = Response("seed", NoBody, 200,
                                    [kind |-> "seeded", status |-> "seeded",
                                     count |-> Len(samples)], 0, 0)
           ELSE /\ seed' = SeedIteration(seed.k + 1)
                /\ resp' = NoResponse
    /\ UNCHANGED <<fb, envAI, postsLeft>>

\* .run() settles for item k: the row is added and the loop moves on (or
\* answers seeded after the last item), or the store fails and the exception
\* leaves fetch.
SeedInsert ==
    /\ seed.pc = "insert"
    /\ \E ok \in BOOLEAN :
        IF ok
        THEN /\ store' = Append(store, Row(samples[seed.k].text,
                                            samples[seed.k].source,
                                            Now, Now, seed.tags))
             /\ IF seed.k = Len(samples)
                THEN /\ seed' = [seed EXCEPT !.pc = "seeded"]
                     /\ resp' = Response("seed", NoBody, 200,
                                         [kind |-> "seeded", status |-> "seeded",
                                          count |-> Len(samples)], 0, 0)
                ELSE /\ seed' = SeedIteration(seed.k + 1)
                     /\ resp' = NoResponse
        ELSE /\ store' = store
             /\ seed' = [seed EXCEPT !.pc = "failed"]
             /\ resp' = Unhandled("seed", NoBody, 0, 0)
    /\ UNCHANGED <<fb, envAI, postsLeft>>

-----------------------------------------------------------------------------
(* Specifications                                                           *)

\* The worker without GET /seed, over every outcome of the classifier.
Next ==
    \/ Options
    \/ Health
    \/ NotFound
    \/ FbReceive
    \/ FbClassify
    \/ FbInsert
    \/ GetStats
    \/ GetClusters

Spec == Init /\ [][Next]_vars

\* The whole worker: one GET /seed and one POST /feedback, interleaved with
\* each other and with the other requests.
NextSeed ==
    \/ Next
    \/ SeedStart
    \/ SeedClassify
    \/ SeedInsert

SpecSeed == InitSeed /\ [][NextSeed]_vars

-----------------------------------------------------------------------------
(* Properties                                                               *)

\* The number of rows whose column holds the value.
Count(rows, column, value) ==
    Cardinality({i \in 1..Len(rows) : rows[i][column] = value})
Present(v) == v \notin {Undefined, Null, ""}
StoredThemes == {store[i].theme : i \in 1..Len(store)}

\* A body that parsed and in which text, source or timestamp is missing,
\* null or empty.
LacksField(body) ==
    /\ body.kind \in {"null", "object"}
    /\ \E v \in {body.text, body.source, body.timestamp} : ~Present(v)

FailedOutcome(o) ==
    \/ o.throws
    \/ o.response = <<>>
    \/ \E i \in 1..Len(o.response) : o.response[i] = Prose
    \/ \E i \in 1..Len(o.response) : o.response[i] = JsonM

\* C2: whenever the capability is absent, or its call or the parse of its
\* output fails (error, empty, non-JSON, missing fields), tagWithAI returns
\* exactly the fallback: for a request waiting on env.AI.run, every failed
\* outcome of the call gives the fallback, and with no capability bound the
\* request waiting on its INSERT carries the fallback.
C2_FailureYieldsFallback ==
    /\ fb.pc = "classify" =>
          \A o \in envAI.outcomes :
              FailedOutcome(o) => ParseOrFallback(o) = fallback
    /\ (~envAI.bound /\ fb.pc = "insert") => fb.tags = fallback

\* C3: GET /stats on an empty table answers total 0, high_urgency 0,
\* critical 0, negative 0 and the low-risk summary.
C3_EmptyStats ==
    (resp.handler = "stats" /\ Len(store) = 0)
        => resp.payload =
             [kind |-> "stats", total |-> 0, high_urgency |-> SqlInt(0),
              critical |-> SqlInt(0), negative |-> SqlInt(0),
              summary |-> LowRisk]

\* The counts and the summary the claims give for a table.
ExpectedStats(rows) ==
    LET total == Len(rows)
        high == Count(rows, "urgency", "High")
        crit == Count(rows, "severity", "Critical")
        neg == Count(rows, "sentiment", "Negative")
    IN  [kind |-> "stats", total |-> total, high_urgency |-> SqlInt(high),
         critical |-> SqlInt(crit), negative |-> SqlInt(neg),
         summary |->
             IF 2 * neg > total THEN TrendingNegative
             ELSE IF high > 0 \/ crit > 0 THEN UrgentIssues
                  ELSE LowRisk]

\* C4: for every table content, GET /stats answers the four counts and the
\* summary chosen by first match.
C4_StatsCounts ==
    resp.handler = "stats" => resp.payload = ExpectedStats(store)

\* C4 on a table that holds at least one row (what the code does achieve).
C4_NonEmptyStats ==
    (resp.handler = "stats" /\ Len(store) > 0)
        => resp.payload = ExpectedStats(store)

\* C5: GET /clusters answers one cluster per distinct theme in the table, in
\* non-increasing order of priority; top_problem is null with no cluster and
\* otherwise a cluster of maximal priority; an empty table gives null and [].
C5_ClustersSorted ==
    resp.handler = "clusters" =>
        LET cs == resp.payload.clusters
            top == resp.payload.top_problem
        IN  /\ Len(cs) = Cardinality(StoredThemes)
            /\ {cs[i].theme : i \in 1..Len(cs)} = StoredThemes
            /\ \A i, j \in 1..Len(cs) : i < j => cs[i].priority >= cs[j].priority
            /\ Len(cs) = 0 => top = <<>>
            /\ Len(cs) > 0 =>
                  /\ Len(top) = 1
                  /\ \E i \in 1..Len(cs) : cs[i] = top[1]
                  /\ \A i \in 1..Len(cs) : top[1].priority >= cs[i].priority
            /\ Len(store) = 0 => (cs = <<>> /\ top = <<>>)

C5_Witness ==
    /\ resp.handler = "clusters"
    /\ Len(resp.payload.clusters) = 3
    /\ resp.payload.clusters[1].priority > resp.payload.clusters[2].priority
    /\ resp.payload.clusters[2].priority > resp.payload.clusters[3].priority
    /\ resp.payload.clusters[1].theme = "Bug"
    /\ resp.payload.clusters[3].theme = "Performance"

\* Sums of the fixed weights over the rows of one theme.
ThemeRows(theme) == SelectSeq(store, LAMBDA r : r.theme = theme)
WeightOfUrgency(u) == CASE u = "High" -> 3 [] u = "Medium" -> 2 [] OTHER -> 1
WeightOfSeverity(v) == CASE v = "Critical" -> 3 [] v = "Moderate" -> 2 [] OTHER -> 1
UrgencySum(theme) ==
    SeqSum([i \in 1..Len(ThemeRows(theme)) |-> WeightOfUrgency(ThemeRows(theme)[i].urgency)])
SeveritySum(theme) ==
    SeqSum([i \in 1..Len(ThemeRows(theme)) |-> WeightOfSeverity(ThemeRows(theme)[i].severity)])

\* The insight and recommendation of a cluster, given whether its priority
\* counts as above the threshold.
ExpectedPair(theme, above) ==
    IF theme = "Other" THEN <<TaxonomyInsight, TaxonomyRecommendation>>
    ELSE IF above THEN <<HighImpactInsight, HighImpactRecommendation>>
         ELSE <<RecurringInsight, RecurringRecommendation>>

\* The answer of GET /clusters the claim gives for the table that holds one
\* row (Bug, High, Critical).
OneBugRowHolds ==
    (Len(store) = 1 /\ store[1].theme = "Bug" /\ store[1].urgency = "High"
        /\ store[1].severity = "Critical")
    => resp.payload.clusters =
         << [theme |-> "Bug", coverage |-> 1, avg_urgency |-> 300,
             avg_severity |-> 300, priority |-> 900,
             insight |-> RecurringInsight,
             recommendation |-> RecurringRecommendation] >>

CoverageOf(rows, theme) == Count(rows, "theme", theme)

\* C7: the step in which POST /feedback answers stored has added exactly one
\* row, the last one, built from the request and the returned tags, after at
\* most one classifier call; GET /stats and GET /clusters on the table it
\* leaves report a total one higher and, for the theme of the returned tags,
\* a cluster whose coverage is one higher.
C7_StoredIsReflected ==
    [][ (resp'.handler = "feedback" /\ resp'.payload.kind = "stored")
          => LET tags == resp'.payload.tags
             IN  /\ resp'.inserts = 1
                 /\ resp'.aiCalls <= 1
                 /\ Len(store') = Len(store) + 1
                 /\ SubSeq(store', 1, Len(store)) = store
                 /\ store'[Len(store')] =
                       Row(resp'.body.text, resp'.body.source,
                           resp'.body.timestamp, Now, tags)
                 /\ StatsPayload(store').total = StatsPayload(store).total + 1
                 /\ \A order \in GroupOrders(store') :
                       \E i \in 1..Len(order) :
                           LET c == ClustersPayload(store', order).clusters[i]
                           IN  /\ c.theme = tags.theme
                               /\ c.coverage = CoverageOf(store, tags.theme) + 1
                 /\ fb.pc = "insert" /\ fb'.pc = "idle" ]_vars

C7_Witness ==
    /\ resp.handler = "feedback"
    /\ resp.payload.kind = "stored"
    /\ resp.aiCalls = 1
    /\ resp.payload.tags.theme = "Bug"
    /\ CoverageOf(store, "Bug") = 2
    /\ Len(store) = 3

\* C8: every row of the table has a non-empty text, source, timestamp and
\* created_at, escalated false, and a theme, urgency, severity and sentiment
\* that are each present.
C8_RowsFullyPopulated ==
    \A i \in 1..Len(store) :
        /\ Present(store[i].text)
        /\ Present(store[i].source)
        /\ Present(store[i].timestamp)
        /\ Present(store[i].created_at)
        /\ store[i].escalated = 0
        /\ Present(store[i].theme)
        /\ Present(store[i].urgency)
        /\ Present(store[i].severity)
        /\ Present(store[i].sentiment)

\* The rows GET /seed added: the rows that carry the text of a sample.
SampleTexts == {samples[i].text : i \in 1..Len(samples)}
SeedRows == SelectSeq(store, LAMBDA r : r.text \in SampleTexts)

\* C9: GET /seed inserts the samples one after another in list order; when it
\* answers seeded it has added exactly 8 rows (and, nothing else having been
\* stored, /stats reports total 8 and /clusters one cluster per theme, at most
\* 8); when item k fails, the k - 1 rows before it stay, no later item is
\* inserted and no seeded answer is returned.
C9_SeedSequential ==
    /\ \A i \in 1..Len(SeedRows) :
          /\ i <= Len(samples)
          /\ SeedRows[i].text = samples[i].text
          /\ SeedRows[i].source = samples[i].source
    /\ seed.pc = "idle" => Len(SeedRows) = 0
    /\ seed.pc \in {"classify", "insert", "failed"} => Len(SeedRows) = seed.k - 1
    /\ seed.pc = "failed" => resp.payload.kind # "seeded"
    /\ resp.payload.kind = "seeded" =>
          /\ seed.pc = "seeded"
          /\ resp.payload.count = 8
    /\ seed.pc = "seeded" =>
          /\ Len(SeedRows) = 8
          /\ Len(store) = Len(SeedRows) =>
                /\ StatsPayload(store).total = 8
                /\ \A order \in GroupOrders(store) :
                      /\ Len(ClustersPayload(store, order).clusters)
                            = Cardinality(StoredThemes)
                      /\ Len(ClustersPayload(store, order).clusters) <= 8

C9_Witness ==
    /\ seed.pc = "failed"
    /\ seed.k = 5
    /\ Len(SeedRows) = 4
    /\ Len(store) = 5
    /\ resp.handler = "seed"
    /\ resp.status = 500

\* C10: the table is append-only: a step leaves it as it is or adds one row
\* at its end; only POST /feedback and GET /seed add a row; OPTIONS, GET /,
\* GET /stats, GET /clusters and the unrouted requests leave it unchanged.
C10_AppendOnly ==
    [][ /\ \/ store' = store
           \/ /\ Len(store') = Len(store) + 1
              /\ SubSeq(store', 1, Len(store)) = store
              /\ \/ fb.pc = "insert" /\ fb'.pc = "idle" /\ seed' = seed
                 \/ seed.pc = "insert" /\ seed' # seed /\ fb' = fb
        /\ resp'.handler \in {"options", "health", "stats", "clusters", "notfound"}
              => store' = store ]_vars

C10_Witness ==
    /\ Len(store) = 9
    /\ Len(SeedRows) = 8
    /\ resp.handler = "notfound"

====
